---- MODULE Spec2Model ----
(***************************************************************************)
(* Model of src/coprocessor/checksum.rs: ChecksumContext, the coprocessor  *)
(* handler that folds every key/value row of a list of key ranges into a   *)
(* CRC64-XOR checksum, a row count and a byte count.                       *)
(*                                                                         *)
(* Several requests (engines) are modelled side by side so that the result *)
(* of one request can be compared with the result of another one over the  *)
(* same data.  A request owns its ChecksumContext, its Scanner and its     *)
(* ExecutorMetrics; nothing is shared, and handle_request is a synchronous *)
(* call, so the engines are run one after the other.                       *)
(***************************************************************************)
EXTENDS Integers, Sequences, FiniteSets, TLC

\* ------------------------------------------------------------------------
\* Bounds of the model.
\* ------------------------------------------------------------------------
\* Longest list of key ranges handed to ChecksumContext::new.
MaxRanges == 3
\* Most rows the row source holds for one key range.
MaxRows == 2
\* The same two bounds where several requests are compared with each other.
MaxRelRanges == 2
MaxRelRows == 2

\* ------------------------------------------------------------------------
\* 64-bit words.  A u64 is the sequence of its bits, bit 0 first.
\* ------------------------------------------------------------------------
W == 64

Bits == 1..W

Zero64 == [i \in Bits |-> 0]

Xor64(a, b) == [i \in Bits |-> (a[i] + b[i]) % 2]

Not64(a) == [i \in Bits |-> 1 - a[i]]

Shr64(a, n) == [i \in Bits |-> IF i + n <= W THEN a[i + n] ELSE 0]

\* `b as u64` for a byte b.
FromByte(b) == [i \in Bits |-> IF i <= 8 THEN (b \div (2 ^ (i - 1))) % 2 ELSE 0]

RECURSIVE LowBits(_, _)
LowBits(a, n) == IF n = 0 THEN 0 ELSE a[1] + 2 * LowBits(Shr64(a, 1), n - 1)

\* `value as u8`.
AsU8(a) == LowBits(a, 8)

\* crc64::ECMA = 0xc96c5795d7870f42, most significant hex digit first.
ECMAHex == <<12, 9, 6, 12, 5, 7, 9, 5, 13, 7, 8, 7, 0, 15, 4, 2>>

ECMA ==
  [i \in Bits |-> (ECMAHex[16 - ((i - 1) \div 4)] \div (2 ^ ((i - 1) % 4))) % 2]

\* crc64::make_table: eight shift/xor steps per table index.
RECURSIVE TableEntry(_, _)
TableEntry(value, n) ==
  IF n = 0 THEN value
  ELSE TableEntry(IF value[1] = 1 THEN Xor64(Shr64(value, 1), ECMA)
                                  ELSE Shr64(value, 1), n - 1)

make_table == [i \in 0..255 |-> TableEntry(FromByte(i), 8)]

\* crc64::update without the two complements: one table step per byte.
RECURSIVE UpdateBytes(_, _)
UpdateBytes(value, bytes) ==
  IF bytes = <<>> THEN value
  ELSE UpdateBytes(Xor64(make_table[AsU8(Xor64(value, FromByte(Head(bytes))))],
                         Shr64(value, 8)),
                   Tail(bytes))

\* Digest::write(bytes) on a digest whose value is `value`.
DigestWrite(value, bytes) == Not64(UpdateBytes(Not64(value), bytes))

\* Digest::new(crc64::ECMA); write(k); write(v); sum64().
Crc64Sum(k, v) == DigestWrite(DigestWrite(Zero64, k), v)

\* Rows (key bytes, value bytes): ("k1", "v1") and ("k2", "v").
RowSet == {<< <<107, 49>>, <<118, 49>> >>, << <<107, 50>>, <<118>> >>}

\* The digests of the rows of the model, computed once.
DigestOfRow == [r \in RowSet |-> Crc64Sum(r[1], r[2])]

\* The digest of row (k, v).
Sum64(k, v) == DigestOfRow[<<k, v>>]

\* A rotation of the accumulator before the xor: an order-dependent fold.
checksum_crc64_rot(checksum, k, v) ==
  Xor64([i \in Bits |-> checksum[((i + W - 2) % W) + 1]], Sum64(k, v))

\* A wrapping addition in place of the xor.
RECURSIVE AddBits(_, _, _, _)
AddBits(a, b, i, carry) ==
  IF i > W THEN <<>>
  ELSE <<(a[i] + b[i] + carry) % 2>> \o AddBits(a, b, i + 1, (a[i] + b[i] + carry) \div 2)

checksum_crc64_add(checksum, k, v) == AddBits(checksum, Sum64(k, v), 1, 0)

\* A bitwise or in place of the xor.
checksum_crc64_or(checksum, k, v) ==
  [i \in Bits |-> IF checksum[i] + Sum64(k, v)[i] >= 1 THEN 1 ELSE 0]

\* fn checksum_crc64_xor(checksum, k, v)
checksum_crc64_xor(checksum, k, v) == Xor64(checksum, Sum64(k, v))


\* ------------------------------------------------------------------------
\* Inputs: requests, key ranges, rows and the contents of the row source.
\* ------------------------------------------------------------------------
\* tipb::checksum::ChecksumAlgorithm; "Unknown" is any value but Crc64_Xor.
ChecksumAlgorithm == {"Crc64_Xor", "Unknown"}

\* tipb::checksum::ChecksumScanOn
ChecksumScanOn == {"Table", "Index"}

\* kvproto KeyRange values a caller may pass.
KeyRanges == {"[A,B)", "[B,C)"}

SeqsUpTo(S, n) == UNION {[1..m -> S] : m \in 0..n}

\* What the row source yields, in order, for each key range.
Stores == [KeyRanges -> SeqsUpTo(RowSet, MaxRows)]

RangeLists == SeqsUpTo(KeyRanges, MaxRanges)

Engines == {1, 2, 3}

\* Option<T>
None == <<>>

Some(x) == <<x>>

Unwrap(o) == o[1]

\* ------------------------------------------------------------------------
\* State.
\* ------------------------------------------------------------------------
VARIABLES
  req,          \* ChecksumContext.req
  store,        \* ChecksumContext.store: the rows behind each key range
  ranges,       \* ChecksumContext.ranges: the cursor over the ranges left
  scanner,      \* ChecksumContext.scanner
  checksum,     \* handle_request's local
  total_kvs,    \* handle_request's local
  total_bytes,  \* handle_request's local
  row,          \* the (k, v) bound by `while let Some((k, v))`
  resp,         \* the value handle_request returns with Ok
  metrics,      \* the caller's ExecutorMetrics
  pc,           \* where each request is
  given,        \* the Vec<KeyRange> the request was constructed with
  calls,        \* every call made on the row source, in order
  yielded,      \* every row next_row has returned
  encoding,     \* the outcome of resp.write_to_bytes(), "" before it
  faulty,       \* whether row-source calls and the encoding may fail
  fresh         \* whether the request is the variant of next_row that
                \* constructs a scanner for every range instead of resetting

vars == <<req, store, ranges, scanner, checksum, total_kvs, total_bytes, row,
          resp, metrics, pc, given, calls, yielded, encoding, faulty, fresh>>

Terminal == {"ok", "err"}

\* ExecutorMetrics::default(), as far as this handler touches it.
NewMetrics == [scan_range |-> 0, cf_stats |-> 0]

\* Scanner::new(store, scan_on, false, false, range)
ScannerNew(scan_on, range) ==
  [scan_on |-> scan_on, range |-> range, pos |-> 0, stats |-> 0]

\* Scanner::reset_range(range, store)
ScannerResetRange(s, range) == [s EXCEPT !.range = range, !.pos = 0]

\* Whether Scanner::next_row has a row left to yield.
ScannerHasRow(e, s) == s.pos < Len(store[e][s.range])

\* ChecksumContext::new: the cursor is at the first range, no scanner yet.
\* inp[e] is the input of engine e, or None when engine e is not used.
Setup(inp, f) ==
  /\ req = [e \in Engines |->
              IF inp[e] = None THEN [algorithm |-> "Crc64_Xor", scan_on |-> "Table"]
              ELSE Unwrap(inp[e]).req]
  /\ store = [e \in Engines |->
              IF inp[e] = None THEN [r \in KeyRanges |-> <<>>]
              ELSE Unwrap(inp[e]).store]
  /\ given = [e \in Engines |->
              IF inp[e] = None THEN <<>> ELSE Unwrap(inp[e]).ranges]
  /\ ranges = given
  /\ scanner = [e \in Engines |-> None]
  /\ checksum = [e \in Engines |-> Zero64]
  /\ total_kvs = [e \in Engines |-> 0]
  /\ total_bytes = [e \in Engines |-> 0]
  /\ row = [e \in Engines |-> None]
  /\ resp = [e \in Engines |-> None]
  /\ metrics = [e \in Engines |-> NewMetrics]
  /\ pc = [e \in Engines |-> IF inp[e] = None THEN "unused" ELSE "start"]
  /\ calls = [e \in Engines |-> <<>>]
  /\ yielded = [e \in Engines |-> <<>>]
  /\ encoding = [e \in Engines |-> ""]
  /\ faulty = f
  /\ fresh = [e \in Engines |->
              IF inp[e] = None THEN FALSE ELSE Unwrap(inp[e]).fresh]

Input(alg, on, rs, st) ==
  Some([req |-> [algorithm |-> alg, scan_on |-> on], ranges |-> rs, store |-> st,
        fresh |-> FALSE])

\* The same input for the variant that never resets its scanner.
InputFresh(alg, on, rs, st) ==
  Some([req |-> [algorithm |-> alg, scan_on |-> on], ranges |-> rs, store |-> st,
        fresh |-> TRUE])

\* One request, any input, over a row source that may fail.
Init ==
  \E alg \in ChecksumAlgorithm, on \in ChecksumScanOn, rs \in RangeLists, st \in Stores :
    Setup(<<Input(alg, on, rs, st), None, None>>, TRUE)

\* Requests run one after the other.
Turn(e) ==
  /\ pc[e] \notin Terminal \cup {"unused"}
  /\ \A f \in Engines : f < e => pc[f] \in Terminal \cup {"unused"}

\* The outcomes of a call that can fail: TRUE is failure.
Fails == IF faulty THEN {FALSE, TRUE} ELSE {FALSE}

Call(op, range, res) == [op |-> op, range |-> range, res |-> res]

\* ------------------------------------------------------------------------
\* handle_request
\* ------------------------------------------------------------------------
AlgorithmSupportedAny(algorithm) == TRUE

\* Line 58: the only algorithm handled.
AlgorithmSupported(algorithm) == algorithm = "Crc64_Xor"

NewAccumulatorOne == [checksum |-> Zero64, total_kvs |-> 1, total_bytes |-> 0]

\* Lines 62-64: checksum, total_kvs and total_bytes start at 0.
NewAccumulator == [checksum |-> Zero64, total_kvs |-> 0, total_bytes |-> 0]

\* Lines 57-64: the algorithm check and the three accumulators.
CheckAlgorithm(e) ==
  /\ Turn(e)
  /\ pc[e] = "start"
  /\ pc' = [pc EXCEPT ![e] =
              IF ~AlgorithmSupported(req[e].algorithm) THEN "err" ELSE "scan"]
  /\ checksum' = [checksum EXCEPT ![e] = NewAccumulator.checksum]
  /\ total_kvs' = [total_kvs EXCEPT ![e] = NewAccumulator.total_kvs]
  /\ total_bytes' = [total_bytes EXCEPT ![e] = NewAccumulator.total_bytes]
  /\ UNCHANGED <<req, store, ranges, scanner, row, resp, metrics, given, calls,
                 yielded, encoding, faulty, fresh>>

ScanArmSwallow(res) ==
  CASE res = "skip" -> "bind"
    [] res = "err"  -> "bind"
    [] res = "row"  -> "body"
    [] res = "none" -> "bind"

ScanArmStop(res) ==
  CASE res = "skip" -> "bind"
    [] res = "err"  -> "err"
    [] res = "row"  -> "body"
    [] res = "none" -> "encode"

ScanArmSpin(res) ==
  CASE res = "skip" -> "scan"
    [] res = "err"  -> "err"
    [] res = "row"  -> "body"
    [] res = "none" -> "bind"

\* Lines 84-90: where next_row goes after the `if let Some(scanner)` block.
\* "skip": there is no scanner; "err": scanner.next_row()? failed; "row": it
\* returned a row, which next_row returns; "none": the range is exhausted.
ScanArm(res) ==
  CASE res = "skip" -> "bind"
    [] res = "err"  -> "err"
    [] res = "row"  -> "body"
    [] res = "none" -> "bind"

ScanCallsFlushFirst(range, res) ==
  IF res = "none"
  THEN <<Call("collect_statistics_into", range, "ok"), Call("next_row", range, res)>>
  ELSE <<Call("next_row", range, res)>>

ScanCallsFlushOnErr(range, res) ==
  IF res \in {"none", "err"}
  THEN <<Call("next_row", range, res), Call("collect_statistics_into", range, "ok")>>
  ELSE <<Call("next_row", range, res)>>

ScanCallsNoFlush(range, res) == <<Call("next_row", range, res)>>

\* Lines 86-88: the calls made on the scanner, by outcome of next_row.
ScanCalls(range, res) ==
  IF res = "none"
  THEN <<Call("next_row", range, res), Call("collect_statistics_into", range, "ok")>>
  ELSE <<Call("next_row", range, res)>>

CountPullIfOk(m, res) ==
  IF res = "err" THEN m ELSE [m EXCEPT !.scan_range = @ + 1]

\* Line 85: metrics.scan_counter.inc_range(), before the pull whose outcome
\* is res.
CountPull(m, res) == [m EXCEPT !.scan_range = @ + 1]

DropScannerWhenExhausted(s, res) == IF res = "none" THEN None ELSE Some(s)

\* Lines 84-89: self.scanner after the pull; as_mut() only borrows the
\* scanner, which stays in self.scanner whatever next_row returned.
KeepScanner(s, res) == Some(s)

\* next_row, lines 84-90: pull from the scanner when there is one.
ScanStep(e) ==
  /\ Turn(e)
  /\ pc[e] = "scan"
  /\ IF scanner[e] = None
     THEN /\ pc' = [pc EXCEPT ![e] = ScanArm("skip")]
          /\ UNCHANGED <<scanner, metrics, row, calls, yielded>>
     ELSE LET s == Unwrap(scanner[e])
          IN \E fail \in Fails :
               LET res == IF fail THEN "err"
                          ELSE IF ScannerHasRow(e, s) THEN "row" ELSE "none"
                   flush == Call("collect_statistics_into", s.range, "ok")
                                \in {ScanCalls(s.range, res)[i] :
                                       i \in 1..Len(ScanCalls(s.range, res))}
                   r == store[e][s.range][s.pos + 1]
                   counted == CountPull(metrics[e], res)
               IN /\ calls' = [calls EXCEPT ![e] = @ \o ScanCalls(s.range, res)]
                  /\ pc' = [pc EXCEPT ![e] = ScanArm(res)]
                  /\ metrics' = [metrics EXCEPT ![e] =
                                   IF flush THEN [counted EXCEPT !.cf_stats = @ + s.stats]
                                   ELSE counted]
                  /\ scanner' = [scanner EXCEPT ![e] =
                       KeepScanner(
                         [s EXCEPT !.pos = IF res = "row" THEN @ + 1 ELSE @,
                                   !.stats = IF flush THEN 0
                                             ELSE IF res = "row" THEN @ + 1 ELSE @],
                         res)]
                  /\ row' = [row EXCEPT ![e] = IF res = "row" THEN Some(r) ELSE @]
                  /\ yielded' = [yielded EXCEPT ![e] =
                                   IF res = "row" THEN Append(@, r) ELSE @]
  /\ UNCHANGED <<req, store, ranges, checksum, total_kvs, total_bytes, resp,
                 given, encoding, faulty, fresh>>

\* new_scanner, lines 107-113.
new_scanner(e, range) ==
  ScannerNew(IF req[e].scan_on = "Table" THEN "Table" ELSE "Index", range)

RangesNextShort(rs) == IF Len(rs) <= 1 THEN None ELSE Some(Head(rs))

\* Line 92: self.ranges.next(), the item the iterator returns.
RangesNext(rs) == IF rs = <<>> THEN None ELSE Some(Head(rs))

RebindAlwaysNew(e, sc, range) ==
  [op |-> "new", scanner |-> new_scanner(e, range)]

RebindNoReset(e, sc, range) ==
  IF sc # None /\ ~fresh[e]
  THEN [op |-> "reset_range", scanner |-> Unwrap(sc)]
  ELSE [op |-> "new", scanner |-> new_scanner(e, range)]

\* Lines 93-99: the call that binds a scanner to the range and the scanner
\* it leaves: reset_range on the scanner taken out of self.scanner, or
\* new_scanner when there is none.  The variant always takes the second
\* branch.
Rebind(e, sc, range) ==
  IF sc # None /\ ~fresh[e]
  THEN [op |-> "reset_range", scanner |-> ScannerResetRange(Unwrap(sc), range)]
  ELSE [op |-> "new", scanner |-> new_scanner(e, range)]

\* next_row, lines 92-103: bind the scanner to the next range, or end.
BindStep(e) ==
  /\ Turn(e)
  /\ pc[e] = "bind"
  /\ IF RangesNext(ranges[e]) # None
     THEN LET range == Unwrap(RangesNext(ranges[e]))
          IN /\ ranges' = [ranges EXCEPT ![e] = Tail(@)]
             /\ \E fail \in Fails :
                  /\ calls' = [calls EXCEPT ![e] =
                       Append(@, Call(Rebind(e, scanner[e], range).op,
                                      range, IF fail THEN "err" ELSE "ok"))]
                  /\ scanner' = [scanner EXCEPT ![e] =
                       IF fail THEN None
                       ELSE Some(Rebind(e, scanner[e], range).scanner)]
                  /\ pc' = [pc EXCEPT ![e] = IF fail THEN "err" ELSE "scan"]
     ELSE /\ pc' = [pc EXCEPT ![e] = "encode"]
          /\ UNCHANGED <<ranges, scanner, calls>>
  /\ UNCHANGED <<req, store, checksum, total_kvs, total_bytes, row, resp, metrics,
                 given, yielded, encoding, faulty, fresh>>

AddBytesKeyOnly(bytes, k, v) == bytes + Len(k)

\* Line 68: total_bytes += k.len() + v.len()
AddBytes(bytes, k, v) == bytes + Len(k) + Len(v)

\* Lines 66-68: the body of the while-let loop.
Accumulate(e) ==
  /\ Turn(e)
  /\ pc[e] = "body"
  /\ LET k == Unwrap(row[e])[1]
         v == Unwrap(row[e])[2]
     IN /\ checksum' = [checksum EXCEPT ![e] = checksum_crc64_xor(@, k, v)]
        /\ total_kvs' = [total_kvs EXCEPT ![e] = @ + 1]
        /\ total_bytes' = [total_bytes EXCEPT ![e] = AddBytes(@, k, v)]
  /\ row' = [row EXCEPT ![e] = None]
  /\ pc' = [pc EXCEPT ![e] = "scan"]
  /\ UNCHANGED <<req, store, ranges, scanner, resp, metrics, given, calls,
                 yielded, encoding, faulty, fresh>>

\* Lines 71-79: build and encode the ChecksumResponse.
Respond(e) ==
  /\ Turn(e)
  /\ pc[e] = "encode"
  /\ \E fail \in Fails :
       /\ encoding' = [encoding EXCEPT ![e] = IF fail THEN "err" ELSE "ok"]
       /\ resp' = [resp EXCEPT ![e] =
                     IF fail THEN None
                     ELSE Some([checksum |-> checksum[e],
                                total_kvs |-> total_kvs[e],
                                total_bytes |-> total_bytes[e]])]
       /\ pc' = [pc EXCEPT ![e] = IF fail THEN "err" ELSE "ok"]
  /\ UNCHANGED <<req, store, ranges, scanner, checksum, total_kvs, total_bytes,
                 row, metrics, given, calls, yielded, faulty, fresh>>

Next ==
  \E e \in Engines :
    \/ CheckAlgorithm(e)
    \/ ScanStep(e)
    \/ BindStep(e)
    \/ Accumulate(e)
    \/ Respond(e)

Spec == Init /\ [][Next]_vars

\* handle_request is one synchronous call: it keeps running until it returns.
FairSpec == Spec /\ WF_vars(Next)

\* ------------------------------------------------------------------------
\* Observations on the state, used by the properties below.
\* ------------------------------------------------------------------------
Used(e) == pc[e] # "unused"

Front(s) == SubSeq(s, 1, Len(s) - 1)

RangesOfCalls(cs) == [i \in 1..Len(cs) |-> cs[i].range]

IsBind(c) == c.op \in {"new", "reset_range"}

IsExhaustion(c) == c.op = "next_row" /\ c.res = "none"

IsFlush(c) == c.op = "collect_statistics_into"

IsError(c) == c.res = "err"

\* The ranges the row source was bound to, was found exhausted on, was
\* flushed for, in call order.
Bound(e) == RangesOfCalls(SelectSeq(calls[e], IsBind))

Exhausted(e) == RangesOfCalls(SelectSeq(calls[e], IsExhaustion))

Flushed(e) == RangesOfCalls(SelectSeq(calls[e], IsFlush))

\* The ranges the cursor has handed out so far.
Taken(e) == SubSeq(given[e], 1, Len(given[e]) - Len(ranges[e]))

\* The rows the row source holds for a list of ranges, in list order.
RECURSIVE RowsOf(_, _)
RowsOf(e, rs) == IF rs = <<>> THEN <<>> ELSE store[e][Head(rs)] \o RowsOf(e, Tail(rs))

RECURSIVE SumBytes(_)
SumBytes(rows) ==
  IF rows = <<>> THEN 0
  ELSE Len(Head(rows)[1]) + Len(Head(rows)[2]) + SumBytes(Tail(rows))

\* ------------------------------------------------------------------------
\* Properties of one request (Spec).
\* ------------------------------------------------------------------------
\* C3: a request whose algorithm is not Crc64_Xor never gets past the
\* algorithm check: it is waiting for the check or has returned an error,
\* has made no call on the row source, has bound no scanner, has taken no
\* range from the cursor and has left the metrics as they were.
UnsupportedAlgorithmNoScan ==
  \A e \in Engines :
    (Used(e) /\ req[e].algorithm # "Crc64_Xor") =>
      /\ pc[e] \in {"start", "err"}
      /\ calls[e] = <<>>
      /\ metrics[e] = NewMetrics
      /\ scanner[e] = None
      /\ ranges[e] = given[e]
      /\ resp[e] = None

UnsupportedAlgorithmSeen ==
  /\ pc[1] = "err"
  /\ req[1].algorithm = "Unknown"
  /\ Len(given[1]) >= 2
  /\ store[1][given[1][1]] # <<>>

\* C4: the counters equal the number and the byte size of the rows pulled
\* so far (of all but the row in hand while the loop body has yet to run),
\* and an Ok response carries the counts of all rows the row source yielded.
CountersMatchRows ==
  \A e \in Engines :
    Used(e) =>
      LET seen == IF pc[e] = "body" THEN Front(yielded[e]) ELSE yielded[e]
      IN /\ total_kvs[e] = Len(seen)
         /\ total_bytes[e] = SumBytes(seen)
         /\ pc[e] = "ok" =>
              /\ Unwrap(resp[e]).total_kvs = Len(yielded[e])
              /\ Unwrap(resp[e]).total_bytes = SumBytes(yielded[e])
              /\ yielded[e] = RowsOf(e, given[e])

CountersMatchRowsSeen ==
  /\ pc[1] = "ok"
  /\ Len(given[1]) >= 2
  /\ given[1][1] # given[1][2]
  /\ Len(store[1][given[1][1]]) >= 2
  /\ Len(store[1][given[1][2]]) >= 1
  /\ Unwrap(resp[1]).total_bytes >= 10

\* C5: an Ok response to a request whose ranges all hold no row (or that
\* has no range) is checksum 0, total_kvs 0, total_bytes 0.
EmptyInputZero ==
  \A e \in Engines :
    (pc[e] = "ok" /\ \A i \in 1..Len(given[e]) : store[e][given[e][i]] = <<>>) =>
      resp[e] = Some([checksum |-> Zero64, total_kvs |-> 0, total_bytes |-> 0])

EmptyInputSeen ==
  /\ pc[1] = "ok"
  /\ Len(given[1]) >= 2
  /\ \A i \in 1..Len(given[1]) : store[1][given[1][i]] = <<>>
  /\ Len(Exhausted(1)) = Len(given[1])

\* C6: once a row-source call or the encoding has failed, the request has
\* returned an error: there is no response, the failed call is the last
\* call made on the row source, and nothing was encoded after it.
FailureAborts ==
  \A e \in Engines :
    LET errs == SelectSeq(calls[e], IsError)
    IN /\ (errs # <<>> \/ encoding[e] = "err") => (pc[e] = "err" /\ resp[e] = None)
       /\ errs # <<>> =>
            /\ Len(errs) = 1
            /\ IsError(calls[e][Len(calls[e])])
            /\ encoding[e] = ""
       /\ pc[e] = "err" => resp[e] = None

FailureAbortsSeen ==
  /\ pc[1] = "err"
  /\ Len(given[1]) >= 2
  /\ calls[1] # <<>>
  /\ calls[1][Len(calls[1])] = Call("next_row", given[1][2], "err")
  /\ total_kvs[1] >= 1
  /\ checksum[1] # Zero64
  /\ ranges[1] # <<>>

\* C7: a response exists only once the request has returned Ok, it is the
\* accumulator, and the accumulator is read (encoded) only when the cursor
\* is empty and every supplied range has been bound and found exhausted.
ResponseOnlyAfterDrain ==
  \A e \in Engines :
    /\ resp[e] # None =>
         /\ pc[e] = "ok"
         /\ Unwrap(resp[e]) = [checksum |-> checksum[e],
                               total_kvs |-> total_kvs[e],
                               total_bytes |-> total_bytes[e]]
    /\ pc[e] \in {"encode", "ok"} =>
         /\ ranges[e] = <<>>
         /\ Bound(e) = given[e]
         /\ Exhausted(e) = given[e]
         /\ scanner[e] # None => ~ScannerHasRow(e, Unwrap(scanner[e]))
         /\ row[e] = None

ResponseAfterDrainSeen ==
  /\ pc[1] = "ok"
  /\ Len(given[1]) >= 2
  /\ Len(yielded[1]) >= 3

\* C8: every exhaustion reported by the row source is followed at once by
\* one statistics flush for that range and there is no other flush; every
\* range bound before the current one has been flushed exactly once; an Ok
\* request has flushed once for each supplied range, in order.
FlushOncePerRange ==
  \A e \in Engines :
    /\ \A i \in 1..Len(calls[e]) :
         /\ IsFlush(calls[e][i]) =>
              /\ i > 1
              /\ IsExhaustion(calls[e][i - 1])
              /\ calls[e][i - 1].range = calls[e][i].range
         /\ IsExhaustion(calls[e][i]) =>
              /\ i < Len(calls[e])
              /\ IsFlush(calls[e][i + 1])
    /\ Len(Flushed(e)) <= Len(Bound(e))
    /\ Len(Flushed(e)) >= Len(Bound(e)) - 1
    /\ Flushed(e) = SubSeq(Bound(e), 1, Len(Flushed(e)))
    /\ pc[e] = "ok" => Flushed(e) = given[e]

FlushOncePerRangeSeen ==
  /\ pc[1] = "ok"
  /\ Len(given[1]) >= 2
  /\ Len(Flushed(1)) = Len(given[1])
  /\ store[1][given[1][1]] = <<>>
  /\ store[1][given[1][2]] # <<>>

\* C9: the cursor only moves forward; each range it has handed out was
\* bound once, in order; the rows yielded are the rows of the ranges bound
\* before the current one followed by the rows read so far from the current
\* one; the sequence ends only with the cursor empty and all rows yielded.
RowsAreConcatenation ==
  \A e \in Engines :
    Used(e) =>
      /\ Len(ranges[e]) <= Len(given[e])
      /\ ranges[e] = SubSeq(given[e], Len(given[e]) - Len(ranges[e]) + 1, Len(given[e]))
      /\ RangesOfCalls(SelectSeq(calls[e], IsBind)) = Taken(e)
      /\ yielded[e] =
           IF scanner[e] = None THEN RowsOf(e, Front(Taken(e)))
           ELSE RowsOf(e, Front(Taken(e)))
                  \o SubSeq(store[e][Unwrap(scanner[e]).range], 1, Unwrap(scanner[e]).pos)
      /\ scanner[e] # None => Unwrap(scanner[e]).range = Taken(e)[Len(Taken(e))]
      /\ pc[e] \in {"encode", "ok"} =>
           /\ ranges[e] = <<>>
           /\ yielded[e] = RowsOf(e, given[e])

EmptyMiddleRangeSeen ==
  /\ pc[1] = "ok"
  /\ Len(given[1]) = 3
  /\ store[1][given[1][1]] # <<>>
  /\ store[1][given[1][2]] = <<>>
  /\ store[1][given[1][3]] # <<>>
  /\ yielded[1] = store[1][given[1][1]] \o store[1][given[1][3]]

\* C10: every request eventually returns, Ok or Err.
EventuallyReturns == <>(\A e \in Engines : Used(e) => pc[e] \in Terminal)

LongRequestReturned ==
  /\ pc[1] = "ok"
  /\ Len(given[1]) >= 3
  /\ Len(yielded[1]) >= 4

\* ------------------------------------------------------------------------
\* Several requests over the same data (PermSpec, SplitSpec).
\* ------------------------------------------------------------------------
RelLists == SeqsUpTo(KeyRanges, MaxRelRanges)

RelStores == [KeyRanges -> SeqsUpTo(RowSet, MaxRelRows)]

Count(s, x) == Cardinality({i \in 1..Len(s) : s[i] = x})

Elems(s) == {s[i] : i \in 1..Len(s)}

IsPerm(s, t) ==
  /\ Len(s) = Len(t)
  /\ \A x \in Elems(s) \cup Elems(t) : Count(s, x) = Count(t, x)

PermsOf(s) == {t \in [1..Len(s) -> Elems(s)] : IsPerm(s, t)}

\* The stores that hold, for each range, the rows of st in some order.
RowPermsOf(st) ==
  {st2 \in [KeyRanges -> UNION {PermsOf(st[r]) : r \in KeyRanges}] :
     \A r \in KeyRanges : IsPerm(st[r], st2[r])}

\* Request 1 over any ranges and rows; request 2 over a permutation of the
\* range list and, inside each range, a permutation of the rows.
InitPerm ==
  \E rs \in RelLists, st \in RelStores :
    \E rs2 \in PermsOf(rs), st2 \in RowPermsOf(st) :
      Setup(<<Input("Crc64_Xor", "Table", rs, st),
              Input("Crc64_Xor", "Table", rs2, st2), None>>, FALSE)

PermSpec == InitPerm /\ [][Next]_vars

\* The entries of rs whose mark is m.
RECURSIVE SubList(_, _, _)
SubList(rs, mask, m) ==
  IF rs = <<>> THEN <<>>
  ELSE (IF Head(mask) = m THEN <<Head(rs)>> ELSE <<>>)
         \o SubList(Tail(rs), Tail(mask), m)

IsSplit(whole, a, b) ==
  \E mask \in [1..Len(whole) -> {2, 3}] :
    a = SubList(whole, mask, 2) /\ b = SubList(whole, mask, 3)

\* Request 1 over the whole list; requests 2 and 3 over the two sub-lists
\* of a split of it, all over the same rows.
InitSplit ==
  \E rs \in RelLists, st \in RelStores :
    \E mask \in [1..Len(rs) -> {2, 3}] :
      Setup(<<Input("Crc64_Xor", "Table", rs, st),
              Input("Crc64_Xor", "Table", SubList(rs, mask, 2), st),
              Input("Crc64_Xor", "Table", SubList(rs, mask, 3), st)>>, FALSE)

SplitSpec == InitSplit /\ [][Next]_vars

\* C1: two Ok requests, one over a permutation of the other's range list
\* and of the rows inside each range, return the same checksum, total_kvs
\* and total_bytes.
SameResultUnderPermutation ==
  \A e1 \in Engines, e2 \in Engines :
    ( /\ pc[e1] = "ok"
      /\ pc[e2] = "ok"
      /\ IsPerm(given[e1], given[e2])
      /\ \A r \in KeyRanges : IsPerm(store[e1][r], store[e2][r]) )
    => resp[e1] = resp[e2]

PermutedRequestsSeen ==
  /\ pc[1] = "ok"
  /\ pc[2] = "ok"
  /\ Len(given[1]) = 2
  /\ given[2] = <<given[1][2], given[1][1]>>
  /\ given[1] # given[2]
  /\ \E r \in KeyRanges :
       /\ Len(store[1][r]) = 2
       /\ store[1][r][1] # store[1][r][2]
       /\ store[2][r] = <<store[1][r][2], store[1][r][1]>>
  /\ yielded[1] # yielded[2]
  /\ Unwrap(resp[1]).checksum # Zero64

\* C2: when requests 2 and 3 handle the two sub-lists of a split of request
\* 1's list over the same rows and all three return Ok, the xor of the two
\* partial checksums is the whole checksum and the partial counts add up.
SplitResultsCombine ==
  ( /\ \A e \in Engines : pc[e] = "ok"
    /\ store[2] = store[1]
    /\ store[3] = store[1]
    /\ IsSplit(given[1], given[2], given[3]) )
  => /\ Xor64(Unwrap(resp[2]).checksum, Unwrap(resp[3]).checksum)
          = Unwrap(resp[1]).checksum
     /\ Unwrap(resp[2]).total_kvs + Unwrap(resp[3]).total_kvs
          = Unwrap(resp[1]).total_kvs
     /\ Unwrap(resp[2]).total_bytes + Unwrap(resp[3]).total_bytes
          = Unwrap(resp[1]).total_bytes

SplitRequestsSeen ==
  /\ \A e \in Engines : pc[e] = "ok"
  /\ Len(given[1]) = 2
  /\ Len(given[2]) = 1
  /\ Len(given[3]) = 1
  /\ yielded[2] # <<>>
  /\ yielded[3] # <<>>
  /\ Unwrap(resp[2]).checksum # Unwrap(resp[3]).checksum

\* ------------------------------------------------------------------------
\* The scanner binding (Spec).
\* ------------------------------------------------------------------------
LastCall(e) == calls[e][Len(calls[e])]

\* C11 as stated: no scanner before the first bind, and no scanner from the
\* flush that follows an exhaustion until the next bind.
ScannerDroppedWhenExhausted ==
  \A e \in Engines :
    Used(e) =>
      /\ calls[e] = <<>> => scanner[e] = None
      /\ (calls[e] # <<>> /\ IsFlush(LastCall(e))) => scanner[e] = None

\* C11, amended: there is no scanner before the first range is bound; an
\* exhausted scanner is kept: after the flush it is still in self.scanner,
\* bound to the exhausted range with no row left.  The scanner is None only
\* before the first bind and after a bind that failed.
ScannerKeptWhenExhausted ==
  \A e \in Engines :
    Used(e) =>
      /\ calls[e] = <<>> => scanner[e] = None
      /\ (calls[e] # <<>> /\ IsFlush(LastCall(e))) =>
           /\ scanner[e] # None
           /\ Unwrap(scanner[e]).range = LastCall(e).range
           /\ ~ScannerHasRow(e, Unwrap(scanner[e]))
      /\ scanner[e] = None <=>
           \/ calls[e] = <<>>
           \/ (IsBind(LastCall(e)) /\ IsError(LastCall(e)))

ExhaustedScannerSeen ==
  /\ pc[1] = "bind"
  /\ calls[1] # <<>>
  /\ IsFlush(LastCall(1))
  /\ ranges[1] # <<>>
  /\ scanner[1] # None
  /\ yielded[1] # <<>>

\* C12 as stated: when the row sequence has ended, the scanner binding is
\* empty and the cursor is empty.
SequenceEndsUnbound ==
  \A e \in Engines :
    pc[e] \in {"encode", "ok"} => (scanner[e] = None /\ ranges[e] = <<>>)

\* C12, amended: next_row returns None in exactly one situation, when it
\* asks the cursor for the next range and the cursor is empty; the scanner
\* is then still bound (to the last range, exhausted and flushed) unless no
\* range was supplied.
SequenceEndsOnEmptyCursor ==
  [][\A e \in Engines :
       /\ (pc[e] # "encode" /\ pc'[e] = "encode") <=> (pc[e] = "bind" /\ ranges[e] = <<>>)
       /\ (pc[e] # "encode" /\ pc'[e] = "encode") =>
            /\ ranges'[e] = <<>>
            /\ scanner'[e] = None <=> given[e] = <<>>
            /\ scanner'[e] # None =>
                 /\ ~ScannerHasRow(e, Unwrap(scanner'[e]))
                 /\ IsFlush(LastCall(e))
                 /\ Unwrap(scanner'[e]).range = given[e][Len(given[e])]]_vars

SequenceEndSeen ==
  /\ pc[1] = "encode"
  /\ Len(given[1]) >= 2
  /\ scanner[1] # None
  /\ yielded[1] # <<>>

IsNew(c) == c.op = "new"

IsReset(c) == c.op = "reset_range"

\* C13: the first bind of a request is a construction and every later bind
\* is a reset of the existing scanner; an Ok request over N >= 1 ranges has
\* made exactly 1 construction and N - 1 resets.
ConstructOnceThenReset ==
  \A e \in Engines :
    (Used(e) /\ ~fresh[e]) =>
      LET binds == SelectSeq(calls[e], IsBind)
      IN /\ \A i \in 1..Len(binds) :
              binds[i].op = IF i = 1 THEN "new" ELSE "reset_range"
         /\ binds # <<>> => binds[1].range = given[e][1]
         /\ Len(SelectSeq(calls[e], IsNew)) <= 1
         /\ (pc[e] = "ok" /\ given[e] # <<>>) =>
              /\ Len(SelectSeq(calls[e], IsNew)) = 1
              /\ Len(SelectSeq(calls[e], IsReset)) = Len(given[e]) - 1

ResetsSeen ==
  /\ pc[1] = "ok"
  /\ Len(given[1]) >= 3
  /\ Len(SelectSeq(calls[1], IsReset)) >= 2
  /\ yielded[1] # <<>>

\* C14 as stated: in every state of a request there is a scanner, bound to
\* the range most recently taken from the cursor.
ExactlyOneScannerBound ==
  \A e \in Engines :
    Used(e) =>
      /\ scanner[e] # None
      /\ Taken(e) # <<>>
      /\ Unwrap(scanner[e]).range = Taken(e)[Len(Taken(e))]

\* C14, amended: a request holds at most one scanner and none before its
\* first range is bound; whenever it holds one, the scanner is bound to the
\* range most recently taken from the cursor, and it holds one whenever a
\* range is being drained.
AtMostOneScannerBound ==
  \A e \in Engines :
    Used(e) =>
      /\ Taken(e) = <<>> => scanner[e] = None
      /\ scanner[e] # None =>
           /\ Taken(e) # <<>>
           /\ Unwrap(scanner[e]).range = Taken(e)[Len(Taken(e))]
      /\ ~fresh[e] => Len(SelectSeq(calls[e], IsNew)) <= 1
      /\ (pc[e] \in {"scan", "body"} /\ Taken(e) # <<>>) => scanner[e] # None

SecondRangeDrainedSeen ==
  /\ pc[1] = "body"
  /\ Len(Taken(1)) = 2
  /\ given[1][1] # given[1][2]
  /\ scanner[1] # None
  /\ Unwrap(scanner[1]).range = given[1][2]

\* C15: every reset of the scanner comes right after the statistics flush
\* of the range bound before it, which comes right after that range's
\* exhaustion: the k-th bind is preceded by the flush of the (k-1)-th range.
FlushBeforeReset ==
  \A e \in Engines :
    \A i \in 1..Len(calls[e]) :
      IsReset(calls[e][i]) =>
        LET k == Len(SelectSeq(SubSeq(calls[e], 1, i), IsBind))
        IN /\ i > 2
           /\ k >= 2
           /\ IsFlush(calls[e][i - 1])
           /\ calls[e][i - 1].range = given[e][k - 1]
           /\ IsExhaustion(calls[e][i - 2])
           /\ calls[e][i - 2].range = given[e][k - 1]
           /\ calls[e][i].range = given[e][k]

FlushThenResetSeen ==
  /\ pc[1] = "scan"
  /\ Len(given[1]) >= 2
  /\ given[1][1] # given[1][2]
  /\ store[1][given[1][1]] # <<>>
  /\ calls[1] # <<>>
  /\ LastCall(1) = Call("reset_range", given[1][2], "ok")

\* ------------------------------------------------------------------------
\* The engine as written beside the construct-per-range variant (EquivSpec).
\* ------------------------------------------------------------------------
\* Request 1 is the engine as written, request 2 the variant, over the same
\* request, ranges and rows.
InitEquiv ==
  \E on \in ChecksumScanOn, rs \in RelLists, st \in RelStores :
    Setup(<<Input("Crc64_Xor", on, rs, st),
            InputFresh("Crc64_Xor", on, rs, st), None>>, FALSE)

EquivSpec == InitEquiv /\ [][Next]_vars

\* C16: the engine as written and the variant that constructs a scanner
\* for every range, given the same request, ranges and rows, return the
\* same response, pull the same rows and flush statistics for the same
\* ranges the same number of times.
VariantEquivalent ==
  \A e1 \in Engines, e2 \in Engines :
    ( /\ pc[e1] = "ok"
      /\ pc[e2] = "ok"
      /\ ~fresh[e1]
      /\ fresh[e2]
      /\ req[e1] = req[e2]
      /\ given[e1] = given[e2]
      /\ store[e1] = store[e2] )
    => /\ resp[e1] = resp[e2]
       /\ yielded[e1] = yielded[e2]
       /\ Len(Flushed(e1)) = Len(Flushed(e2))
       /\ Flushed(e1) = Flushed(e2)

VariantComparedSeen ==
  /\ pc[1] = "ok"
  /\ pc[2] = "ok"
  /\ fresh[2]
  /\ Len(given[1]) >= 2
  /\ store[1][given[1][2]] # <<>>
  /\ Len(SelectSeq(calls[1], IsReset)) >= 1
  /\ Len(SelectSeq(calls[2], IsNew)) = Len(given[2])
  /\ Unwrap(resp[1]).checksum # Zero64

\* ------------------------------------------------------------------------
\* More properties of one request (Spec).
\* ------------------------------------------------------------------------
\* C17: an Ok request whose rows are an even number (at least two) of
\* copies of one row returns checksum 0, while total_kvs is the number of
\* copies and total_bytes the size of all copies.
EvenCopiesCancel ==
  \A e \in Engines :
    ( /\ pc[e] = "ok"
      /\ yielded[e] # <<>>
      /\ Len(yielded[e]) % 2 = 0
      /\ \A i \in 1..Len(yielded[e]) : yielded[e][i] = yielded[e][1] )
    => /\ Unwrap(resp[e]).checksum = Zero64
       /\ Unwrap(resp[e]).total_kvs = Len(yielded[e])
       /\ Unwrap(resp[e]).total_bytes =
            Len(yielded[e]) * (Len(yielded[e][1][1]) + Len(yielded[e][1][2]))

FourCopiesSeen ==
  /\ pc[1] = "ok"
  /\ Len(yielded[1]) = 4
  /\ \A i \in 1..4 : yielded[1][i] = yielded[1][1]
  /\ Sum64(yielded[1][1][1], yielded[1][1][2]) # Zero64
  /\ Unwrap(resp[1]).total_kvs = 4

IsPull(c) == c.op = "next_row"

\* C18: the range counter of the metrics is the number of pulls made on the
\* scanner, failed pulls included; in an Ok request it is total_kvs plus
\* the number of ranges.
RangeCounterCountsPulls ==
  \A e \in Engines :
    Used(e) =>
      /\ metrics[e].scan_range = Len(SelectSeq(calls[e], IsPull))
      /\ pc[e] = "ok" =>
           metrics[e].scan_range = Unwrap(resp[e]).total_kvs + Len(given[e])

FailedPullCountedSeen ==
  /\ pc[1] = "err"
  /\ calls[1] # <<>>
  /\ IsPull(LastCall(1))
  /\ IsError(LastCall(1))
  /\ Len(yielded[1]) >= 1
  /\ metrics[1].scan_range = Len(yielded[1]) + Len(Exhausted(1)) + 1

\* C19: after a failed row-source call the metrics hold the flushes of the
\* ranges exhausted before it and no other: the flushed ranges are the
\* ranges taken from the cursor but the last one (the range the call failed
\* on), each flushed at its exhaustion, and the flushed statistics are those
\* of the rows of these ranges.
FlushesSurviveFailure ==
  \A e \in Engines :
    SelectSeq(calls[e], IsError) # <<>> =>
      /\ pc[e] = "err"
      /\ Flushed(e) = Front(Taken(e))
      /\ Flushed(e) = Exhausted(e)
      /\ Len(Flushed(e)) = Len(Taken(e)) - 1
      /\ metrics[e].cf_stats = Len(RowsOf(e, Flushed(e)))

FailureAfterFlushSeen ==
  /\ pc[1] = "err"
  /\ Len(given[1]) >= 2
  /\ calls[1] # <<>>
  /\ LastCall(1) = Call("next_row", given[1][2], "err")
  /\ Len(Flushed(1)) = 1
  /\ metrics[1].cf_stats >= 1
  /\ Len(yielded[1]) > metrics[1].cf_stats

====
